---- MODULE Spec2Model ----
(***************************************************************************)
(* The BLE GATT client transport BleGatt (src/mybleak.py), the abstract    *)
(* contract BaseBle it derives from (src/base_ble.py) and the echo         *)
(* peripheral (src/test.py), as one state machine.                         *)
(*                                                                         *)
(* One device, "A", is the echo peripheral and is present in the BlueZ     *)
(* object tree; "B" is an address the object tree does not hold.  The      *)
(* transport is constructed with the three UUIDs of the peripheral         *)
(* (src/mybleak.py:215).  Byte strings are sequences of 0..255.            *)
(***************************************************************************)
EXTENDS Integers, Sequences, FiniteSets, TLC

VARIABLES
    \* ---- BleGatt instance (src/mybleak.py) ----
    cpc,          \* where the caller's thread is: "idle", "rp_notify", "rp_wait"
    is_open,      \* BaseBle.is_open
    device_path,  \* self.device_path: "unset", "None" or a device
    device,       \* self.device (the Device1 proxy): "unset" or a device
    received,     \* self.received: [set |-> FALSE] is None
    handlers,     \* number of receivers add_signal_receiver has registered
    quit,         \* loop.quit() was called on the current GLib.MainLoop
    \* ---- BlueZ / link, as GetManagedObjects and the proxies show it ----
    linked,       \* the link to device A is up
    gatt,         \* A's GattService1 / GattCharacteristic1 objects are in the tree
    sigq,         \* PropertiesChanged "Value" signals queued on the client's bus connection
    nsent,        \* how many such signals were queued so far
    \* ---- echo peripheral (src/test.py) ----
    notifying,    \* Characteristic.notifying of the notify characteristic
    value,        \* NotifyCharacteristic.value
    emit,         \* the PropertiesChanged "Value" signal the last send_notify emitted
    cccd_value,   \* Descriptor.cccd_value of the CCCD descriptor (desc0)
    user_value,   \* Descriptor.cccd_value of a descriptor with another UUID
    wlog,         \* the WriteValue calls a central made: data, and notifying then
    elog,         \* the signals the peripheral emitted on them, in order
    \* ---- the caller's side: what was asked and what came back ----
    lastOp,       \* the operation that returned last
    lastSize,     \* its size argument (read, recvall)
    lastData,     \* its data argument (write)
    ret,          \* what it returned or raised
    inbound,      \* all bytes the notification handler was given, in order
    returned,     \* all bytes the read operations returned, in call order
    rpIn,         \* the bytes the handler was given during the current read_packet
    tmo,          \* the argument of the last set_timeout call
    evInstalled,  \* set_event(e) was called with the caller's event e
    wake,         \* the caller's event e is signaled
    wakeAt,       \* where the caller's thread was when e was signaled
    calls,        \* the D-Bus method calls the current / last operation issued
    wrecv,        \* what WriteCharacteristic.WriteValue received from it
    \* ---- adapter and discovery (BleGatt.discover) ----
    powered,      \* the adapter's Powered property
    devname,      \* the Name (or Alias) property of device A in the object tree
    devicelist,   \* discover's devicelist
    \* ---- DeviceUuids(service, write, notify) ----
    uargs,        \* the three arguments of the constructor
    uuids         \* the constructed object, "unset" before, "ValueError" if it raised

vars == <<cpc, is_open, device_path, device, received, handlers, quit,
          linked, gatt, sigq, nsent, notifying, value,
          lastOp, lastSize, lastData, ret, inbound, returned, rpIn,
          tmo, evInstalled, wake, wakeAt, calls, wrecv,
          powered, devname, devicelist, uargs, uuids,
          emit, cccd_value, user_value, wlog, elog>>

client   == <<is_open, device_path, device, received, handlers, quit>>
bluez    == <<linked, gatt, sigq, nsent>>
periph   == <<notifying, value, emit>>
streams  == <<inbound, returned, rpIn>>
waking   == <<tmo, evInstalled, wake, wakeAt>>
wire     == <<calls, wrecv>>
scan     == <<powered, devname, devicelist>>
ident    == <<uargs, uuids>>
server   == <<cccd_value, user_value, wlog, elog>>

----------------------------------------------------------------------------
\* Bounds of the model.
MaxNotifies == 2     \* notifications queued towards the client in one run
MaxHandlers == 2     \* read_packet calls that register a receiver
MaxWrites == 3       \* WriteValue calls of a central the write log keeps

\* Frames: [4-byte length L][L bytes payload], length little-endian.
Header(L) == << L % 256, (L \div 256) % 256, (L \div 65536) % 256, (L \div 16777216) % 256 >>
Frame(P) == Header(Len(P)) \o P

Payloads == { <<>>, <<1>> }
\* What is written to the write characteristic: whole frames.
Data == { Frame(P) : P \in Payloads }
Sizes == { 1, 4 }
Targets == { "A", "B", "none" }     \* "none": a falsy device argument
Known == { "A" }                    \* Device1 objects in the object tree

NoneRet == [kind |-> "None", bytes |-> <<>>, exc |-> ""]
TrueRet == [kind |-> "True", bytes |-> <<>>, exc |-> ""]
BytesRet(b) == [kind |-> "bytes", bytes |-> b, exc |-> ""]
Raise(e) == [kind |-> "raise", bytes |-> <<>>, exc |-> e]

\* discover returns the list it built; the list itself is devicelist.
ListRet == [kind |-> "list", bytes |-> <<>>, exc |-> ""]

\* is_bluetooth_on returns the adapter's Powered property.
BoolRet(b) == [kind |-> IF b THEN "True" ELSE "False", bytes |-> <<>>, exc |-> ""]

\* The names the device at address A advertises.
Names == { "n1", "n2" }

NoneVal == [set |-> FALSE, val |-> <<>>]

\* A D-Bus method call on a proxy, with the bytes it carries.
Call(m, arg) == [m |-> m, arg |-> arg]

IsPrefix(s, t) == Len(s) <= Len(t) /\ SubSeq(t, 1, Len(s)) = s

\* The bytes given to the handler and not yet returned by a read operation.
Buffered ==
    IF Len(returned) <= Len(inbound)
    THEN SubSeq(inbound, Len(returned) + 1, Len(inbound))
    ELSE <<>>

\* An argument of DeviceUuids.__init__: None, or a text.  A text is the
\* sequence of its characters.
NoneArg == [none |-> TRUE, text |-> <<>>]
StrArg(t) == [none |-> FALSE, text |-> t]

\* str(x): the text of a str is itself, the text of None is "None".
str(x) == IF x.none THEN <<"N", "o", "n", "e">> ELSE x.text

HexDigits ==
    { "0", "1", "2", "3", "4", "5", "6", "7", "8", "9",
      "a", "b", "c", "d", "e", "f", "A", "B", "C", "D", "E", "F" }

\* The number of hex digits uuid.UUID requires.
UuidHexLen == 32

\* t.strip('{}'): leading and trailing braces removed.
RECURSIVE StripBraces(_)
StripBraces(t) ==
    IF t = <<>> THEN t
    ELSE IF Head(t) \in {"{", "}"} THEN StripBraces(Tail(t))
    ELSE IF t[Len(t)] \in {"{", "}"} THEN StripBraces(SubSeq(t, 1, Len(t) - 1))
    ELSE t

\* t.replace('-', '')
RECURSIVE DropHyphens(_)
DropHyphens(t) ==
    IF t = <<>> THEN <<>>
    ELSE IF Head(t) = "-" THEN DropHyphens(Tail(t))
    ELSE <<Head(t)>> \o DropHyphens(Tail(t))

\* uuid.UUID(t), as DeviceUuids.__init__ calls it: braces and hyphens are
\* removed, a text that is then not 32 characters long or holds a character
\* that is no hex digit raises ValueError, otherwise the digits are the
\* UUID.  (The texts of Texts carry no urn: / uuid: prefix.)
UUID(t) ==
    LET hex == DropHyphens(StripBraces(t))
    IN  IF Len(hex) # UuidHexLen \/ \E i \in 1..Len(hex) : hex[i] \notin HexDigits
        THEN [ok |-> FALSE, hex |-> <<>>]
        ELSE [ok |-> TRUE, hex |-> hex]

\* n times the character c.
Rep(c, n) == [i \in 1..n |-> c]

\* Texts handed to DeviceUuids: well-formed ones (plain, hyphenated, braced)
\* and badly formed ones (too short, too long, a non-hex character, empty).
Texts ==
    { Rep("a", 32),
      Rep("1", 8) \o <<"-">> \o Rep("b", 4) \o <<"-">> \o Rep("c", 4) \o <<"-">>
          \o Rep("d", 4) \o <<"-">> \o Rep("e", 12),
      <<"{">> \o Rep("F", 32) \o <<"}">>,
      Rep("a", 31),
      Rep("a", 33),
      Rep("a", 31) \o <<"g">>,
      <<>> }

Args == { NoneArg } \cup { StrArg(t) : t \in Texts }

\* No DeviceUuids object was constructed.
NoUuids == [state |-> "unset", service |-> <<>>, write |-> <<>>, notify |-> <<>>]

\* A UUID text: its lower-case form and whether it is written in upper case.
UuidText(l, c) == [low |-> l, case |-> c]

\* u.lower()
lower(u) == [u EXCEPT !.case = "lower"]

\* CCCD_UUID (src/test.py:36) and the UUID of a descriptor that is no CCCD.
CCCD_UUID == UuidText("00002902-0000-1000-8000-00805f9b34fb", "lower")
USER_UUID == UuidText("00002901-0000-1000-8000-00805f9b34fb", "lower")

\* The descriptors of the notify characteristic: desc0 is the CCCD that
\* NotifyCharacteristic.__init__ adds, desc1 one made with another UUID.
Descs == { "desc0", "desc1" }
uuid(desc) == IF desc = "desc0" THEN CCCD_UUID ELSE USER_UUID

\* Values a central writes to a descriptor.
CccdWrites ==
    { <<>>, <<0>>, <<1>>, <<2>>, <<0, 0>>, <<1, 0>>, <<0, 1>>, <<3, 0>>,
      <<1, 0, 7>>, <<0, 1, 1>> }

\* b'\x00' * n
Zeros(n) == [i \in 1..n |-> 0]

\* Descriptor.ReadValue: the stored value of the descriptor.
ReadValue(desc) == IF desc = "desc0" THEN cccd_value ELSE user_value

\* The data of the logged WriteValue calls that were made while notifying.
RECURSIVE Echoed(_)
Echoed(w) ==
    IF w = <<>> THEN <<>>
    ELSE (IF Head(w).en THEN << Head(w).data >> ELSE <<>>) \o Echoed(Tail(w))

\* An operation returns to the caller: what the caller sees of it.
Returns(op, r, n, d) ==
    /\ lastOp' = op
    /\ ret' = r
    /\ lastSize' = n
    /\ lastData' = d

----------------------------------------------------------------------------
\* BleGatt.__init__: everything but the DeviceUuids object handed to it.
InitTransport ==
    /\ cpc = "idle"
    /\ is_open = FALSE
    /\ device_path = "unset"
    /\ device = "unset"
    /\ received = NoneVal
    /\ handlers = 0
    /\ quit = FALSE
    /\ linked = FALSE
    /\ gatt = FALSE
    /\ sigq = <<>>
    /\ nsent = 0
    /\ notifying = FALSE
    /\ value = <<>>
    /\ emit = <<>>
    /\ cccd_value = <<0, 0>>
    /\ user_value = <<0, 0>>
    /\ wlog = <<>>
    /\ elog = <<>>
    /\ lastOp = "init"
    /\ lastSize = 0
    /\ lastData = <<>>
    /\ ret = NoneRet
    /\ inbound = <<>>
    /\ returned = <<>>
    /\ rpIn = <<>>
    /\ tmo = "None"
    /\ evInstalled = FALSE
    /\ wake = FALSE
    /\ wakeAt = "none"
    /\ calls = <<>>
    /\ wrecv = <<>>
    /\ powered = TRUE
    /\ devname = "n1"
    /\ devicelist = <<>>

\* BleGatt.__init__ with uuids = None, the default.
Init ==
    /\ InitTransport
    /\ uargs = <<NoneArg, NoneArg, NoneArg>>
    /\ uuids = NoUuids

----------------------------------------------------------------------------
\* Echo peripheral (src/test.py).

\* A "Value" signal emitted by the peripheral reaches the client's bus
\* connection when the link is up and a receiver matches it.
Emits == notifying /\ linked /\ handlers > 0

\* send_notify without lines 204-206: the signal is emitted whether or not
\* the client enabled notifications.
send_notify_mut(data) ==
    /\ value' = data
    /\ emit' = << data >>
    /\ IF linked /\ handlers > 0
       THEN sigq' = Append(sigq, data) /\ nsent' = nsent + 1
       ELSE UNCHANGED <<sigq, nsent>>

\* NotifyCharacteristic.send_notify
send_notify(data) ==
    IF ~notifying
    THEN /\ emit' = <<>>
         /\ UNCHANGED <<value, sigq, nsent>>
    ELSE /\ value' = data
         /\ emit' = << data >>
         /\ IF linked /\ handlers > 0
            THEN sigq' = Append(sigq, data) /\ nsent' = nsent + 1
            ELSE UNCHANGED <<sigq, nsent>>

\* WriteCharacteristic.WriteValue: echo on the notify characteristic.
WriteValue(data) == send_notify(data)

\* Characteristic.StartNotify / StopNotify
StartNotify == notifying' = TRUE
StopNotify == notifying' = FALSE

\* WriteCharacteristic.WriteValue called for a central, with the call and
\* what it led to kept in the logs.
CentralWriteValue(data) ==
    /\ Len(wlog) < MaxWrites
    /\ Emits => nsent < MaxNotifies
    /\ WriteValue(data)
    /\ wlog' = Append(wlog, [data |-> data, en |-> notifying])
    /\ elog' = elog \o emit'
    /\ UNCHANGED <<cpc, client, linked, gatt, notifying, lastOp, lastSize, lastData,
                   ret, streams, waking, wire, scan, ident, cccd_value, user_value>>

\* Characteristic.StartNotify called for a central.
CentralStartNotify ==
    /\ StartNotify
    /\ UNCHANGED <<cpc, client, bluez, value, emit, lastOp, lastSize, lastData, ret,
                   streams, waking, wire, scan, ident, server>>

\* Characteristic.StopNotify called for a central.
CentralStopNotify ==
    /\ StopNotify
    /\ UNCHANGED <<cpc, client, bluez, value, emit, lastOp, lastSize, lastData, ret,
                   streams, waking, wire, scan, ident, server>>

\* Descriptor.WriteValue as if every descriptor were the CCCD: the UUID is
\* not looked at.
DescWriteValue_mut(desc, v) ==
    LET stored == IF Len(v) >= 2 THEN SubSeq(v, 1, 2) ELSE v \o Zeros(2 - Len(v))
    IN  /\ IF desc = "desc0"
           THEN cccd_value' = stored /\ UNCHANGED user_value
           ELSE user_value' = stored /\ UNCHANGED cccd_value
        /\ notifying' = (stored[1] % 2 # 0)
        /\ UNCHANGED <<cpc, client, bluez, value, emit, lastOp, lastSize, lastData,
                       ret, streams, waking, wire, scan, ident, wlog, elog>>

\* Descriptor.WriteValue (src/test.py:174-191) of descriptor desc of the
\* notify characteristic.
DescWriteValue(desc, v) ==
    /\ IF lower(uuid(desc)) = lower(CCCD_UUID)
       THEN LET stored == IF Len(v) >= 2
                          THEN SubSeq(v, 1, 2)
                          ELSE v \o Zeros(2 - Len(v))
            IN  /\ IF desc = "desc0"
                   THEN cccd_value' = stored /\ UNCHANGED user_value
                   ELSE user_value' = stored /\ UNCHANGED cccd_value
                /\ notifying' = (stored[1] % 2 # 0)
       ELSE UNCHANGED <<cccd_value, user_value, notifying>>
    /\ UNCHANGED <<cpc, client, bluez, value, emit, lastOp, lastSize, lastData, ret,
                   streams, waking, wire, scan, ident, wlog, elog>>

\* WriteValue called by a central other than this client.
PeerWriteValue(data) ==
    /\ Emits => nsent < MaxNotifies
    /\ WriteValue(data)
    /\ UNCHANGED <<cpc, client, linked, gatt, notifying, lastOp, lastSize, lastData,
                   ret, streams, waking, wire, scan, ident, server>>

----------------------------------------------------------------------------
\* BlueZ, as the client sees it.

\* The GATT objects of a connected device appear in the object tree some
\* time after Connect() returned.
ServicesResolved ==
    /\ linked /\ ~gatt
    /\ gatt' = TRUE
    /\ UNCHANGED <<cpc, client, linked, sigq, nsent, periph, lastOp, lastSize,
                   lastData, ret, streams, waking, wire, scan, ident, server>>

\* They may be dropped from the tree once the link is down.
ServicesRemoved ==
    /\ ~linked /\ gatt
    /\ gatt' = FALSE
    /\ UNCHANGED <<cpc, client, linked, sigq, nsent, periph, lastOp, lastSize,
                   lastData, ret, streams, waking, wire, scan, ident, server>>

\* The link is lost without the client asking for it.
LinkLost ==
    /\ linked
    /\ linked' = FALSE
    /\ UNCHANGED <<cpc, client, gatt, sigq, nsent, periph, lastOp, lastSize,
                   lastData, ret, streams, waking, wire, scan, ident, server>>

----------------------------------------------------------------------------
\* BleGatt (src/mybleak.py).

\* The service (and with it the characteristic) lookup of write and
\* read_packet: a GattService1 with the configured UUID whose Device is
\* self.device_path.
Resolved == gatt /\ device_path = "A"

\* BleGatt.connect without lines 61-62: the address lookup is not checked, the
\* proxy is made for whatever was asked for and Connect() is called on it.
connect_mut(dev) ==
    /\ cpc = "idle"
    /\ IF dev = "none" /\ device = "unset"
       THEN /\ Returns("connect", Raise("AttributeError"), 0, <<>>)
            /\ calls' = <<>>
            /\ UNCHANGED <<device_path, device, linked>>
       ELSE /\ IF dev # "none"
               THEN device_path' = dev /\ device' = dev
               ELSE UNCHANGED <<device_path, device>>
            /\ calls' = << Call("Connect", <<>>) >>
            /\ \E ok \in BOOLEAN :
                 IF ok
                 THEN /\ powered
                      /\ linked' = TRUE
                      /\ Returns("connect", NoneRet, 0, <<>>)
                 ELSE /\ UNCHANGED linked
                      /\ Returns("connect", Raise("DBusException"), 0, <<>>)
    /\ wrecv' = <<>>
    /\ UNCHANGED <<cpc, is_open, received, handlers, quit, gatt, sigq, nsent,
                   periph, streams, waking, scan, ident, server>>

\* BleGatt.connect
connect(dev) ==
    /\ cpc = "idle"
    /\ IF dev # "none" /\ dev \notin Known
       THEN /\ device_path' = "None"
            /\ Returns("connect", Raise("Exception"), 0, <<>>)
            /\ calls' = <<>>
            /\ UNCHANGED <<device, linked>>
       ELSE IF dev = "none" /\ device = "unset"
       THEN /\ Returns("connect", Raise("AttributeError"), 0, <<>>)
            /\ calls' = <<>>
            /\ UNCHANGED <<device_path, device, linked>>
       ELSE /\ IF dev # "none"
               THEN device_path' = dev /\ device' = dev
               ELSE UNCHANGED <<device_path, device>>
            /\ calls' = << Call("Connect", <<>>) >>
            /\ \E ok \in BOOLEAN :
                 IF ok
                 THEN /\ powered
                      /\ linked' = TRUE
                      /\ Returns("connect", NoneRet, 0, <<>>)
                 ELSE /\ UNCHANGED linked
                      /\ Returns("connect", Raise("DBusException"), 0, <<>>)
    /\ wrecv' = <<>>
    /\ UNCHANGED <<cpc, is_open, received, handlers, quit, gatt, sigq, nsent,
                   periph, streams, waking, scan, ident, server>>

\* BleGatt.Disconnect
Disconnect ==
    /\ cpc = "idle"
    /\ IF device = "unset"
       THEN /\ Returns("Disconnect", Raise("AttributeError"), 0, <<>>)
            /\ calls' = <<>>
            /\ UNCHANGED linked
       ELSE IF linked
       THEN /\ linked' = FALSE
            /\ calls' = << Call("Disconnect", <<>>) >>
            /\ Returns("Disconnect", NoneRet, 0, <<>>)
       ELSE /\ UNCHANGED linked
            /\ calls' = << Call("Disconnect", <<>>) >>
            /\ \E ok \in BOOLEAN :
                 Returns("Disconnect",
                         IF ok THEN NoneRet ELSE Raise("DBusException"), 0, <<>>)
    /\ wrecv' = <<>>
    /\ UNCHANGED <<cpc, client, gatt, sigq, nsent, periph, streams, waking, scan,
                   ident, server>>

\* BleGatt.write that hands data over in two pieces, the first four bytes and
\* the rest, each with its own WriteValue call.
write_chunked(data) ==
    /\ cpc = "idle"
    /\ (Resolved /\ Emits) => nsent < MaxNotifies
    /\ IF gatt /\ device_path = "unset"
       THEN /\ Returns("write", Raise("AttributeError"), 0, data)
            /\ calls' = <<>> /\ wrecv' = <<>>
            /\ UNCHANGED <<value, emit, sigq, nsent>>
       ELSE IF ~Resolved
       THEN /\ Returns("write", Raise("Exception"), 0, data)
            /\ calls' = <<>> /\ wrecv' = <<>>
            /\ UNCHANGED <<value, emit, sigq, nsent>>
       ELSE IF ~linked
       THEN /\ Returns("write", Raise("DBusException"), 0, data)
            /\ calls' = << Call("WriteValue", SubSeq(data, 1, 4)) >> /\ wrecv' = <<>>
            /\ UNCHANGED <<value, emit, sigq, nsent>>
       ELSE /\ WriteValue(SubSeq(data, 1, 4))
            /\ calls' = << Call("WriteValue", SubSeq(data, 1, 4)),
                           Call("WriteValue", SubSeq(data, 5, Len(data))) >>
            /\ wrecv' = << SubSeq(data, 1, 4), SubSeq(data, 5, Len(data)) >>
            /\ Returns("write", TrueRet, 0, data)
    /\ UNCHANGED <<cpc, client, linked, gatt, notifying, streams, waking, scan,
                   ident, server>>

\* BleGatt.write against a stack that forwards WriteValue to the peripheral
\* whether or not the link is up.
write_mut(data) ==
    /\ cpc = "idle"
    /\ (Resolved /\ Emits) => nsent < MaxNotifies
    /\ IF gatt /\ device_path = "unset"
       THEN /\ Returns("write", Raise("AttributeError"), 0, data)
            /\ calls' = <<>> /\ wrecv' = <<>>
            /\ UNCHANGED <<value, emit, sigq, nsent>>
       ELSE IF ~Resolved
       THEN /\ Returns("write", Raise("Exception"), 0, data)
            /\ calls' = <<>> /\ wrecv' = <<>>
            /\ UNCHANGED <<value, emit, sigq, nsent>>
       ELSE /\ WriteValue(data)
            /\ calls' = << Call("WriteValue", data) >> /\ wrecv' = << data >>
            /\ Returns("write", TrueRet, 0, data)
    /\ UNCHANGED <<cpc, client, linked, gatt, notifying, streams, waking, scan,
                   ident, server>>

\* BleGatt.write
write(data) ==
    /\ cpc = "idle"
    /\ (Resolved /\ Emits) => nsent < MaxNotifies
    /\ IF gatt /\ device_path = "unset"
       THEN /\ Returns("write", Raise("AttributeError"), 0, data)
            /\ calls' = <<>> /\ wrecv' = <<>>
            /\ UNCHANGED <<value, emit, sigq, nsent>>
       ELSE IF ~Resolved
       THEN /\ Returns("write", Raise("Exception"), 0, data)
            /\ calls' = <<>> /\ wrecv' = <<>>
            /\ UNCHANGED <<value, emit, sigq, nsent>>
       ELSE IF ~linked
       THEN /\ Returns("write", Raise("DBusException"), 0, data)
            /\ calls' = << Call("WriteValue", data) >> /\ wrecv' = <<>>
            /\ UNCHANGED <<value, emit, sigq, nsent>>
       ELSE /\ WriteValue(data)
            /\ calls' = << Call("WriteValue", data) >> /\ wrecv' = << data >>
            /\ Returns("write", TrueRet, 0, data)
    /\ UNCHANGED <<cpc, client, linked, gatt, notifying, streams, waking, scan,
                   ident, server>>

\* BleGatt.read: forwards to BaseBle.read, whose body is its docstring.
read(size) ==
    /\ cpc = "idle"
    /\ Returns("read", NoneRet, size, <<>>)
    /\ calls' = <<>> /\ wrecv' = <<>>
    /\ UNCHANGED <<cpc, client, bluez, periph, streams, waking, scan, ident, server>>

\* BleGatt.receive: forwards to BaseBle.receive.
receive ==
    /\ cpc = "idle"
    /\ Returns("receive", NoneRet, 0, <<>>)
    /\ calls' = <<>> /\ wrecv' = <<>>
    /\ UNCHANGED <<cpc, client, bluez, periph, streams, waking, scan, ident, server>>

\* BleGatt.recvall: forwards to BaseBle.recvall.
recvall(size) ==
    /\ cpc = "idle"
    /\ Returns("recvall", NoneRet, size, <<>>)
    /\ calls' = <<>> /\ wrecv' = <<>>
    /\ UNCHANGED <<cpc, client, bluez, periph, streams, waking, scan, ident, server>>

\* BleGatt.get_event: forwards to BaseBle.get_event.
get_event ==
    /\ cpc = "idle"
    /\ Returns("get_event", NoneRet, 0, <<>>)
    /\ calls' = <<>> /\ wrecv' = <<>>
    /\ UNCHANGED <<cpc, client, bluez, periph, streams, waking, scan, ident, server>>

\* BleGatt.set_event(e), e a fresh event of the caller: forwards to
\* BaseBle.set_event; the transport keeps nothing of e.
set_event ==
    /\ cpc = "idle"
    /\ Returns("set_event", NoneRet, 0, <<>>)
    /\ evInstalled' = TRUE
    /\ wake' = FALSE
    /\ wakeAt' = "none"
    /\ calls' = <<>> /\ wrecv' = <<>>
    /\ UNCHANGED <<cpc, client, bluez, periph, streams, tmo, scan, ident, server>>

\* BleGatt.set_timeout: forwards to BaseBle.set_timeout; the transport
\* keeps nothing of timeout.
set_timeout(timeout) ==
    /\ cpc = "idle"
    /\ Returns("set_timeout", NoneRet, 0, <<>>)
    /\ tmo' = timeout
    /\ calls' = <<>> /\ wrecv' = <<>>
    /\ UNCHANGED <<cpc, client, bluez, periph, streams, evInstalled, wake, wakeAt,
                   scan, ident, server>>

\* Another execution context signals the event given to set_event.
SignalWake ==
    /\ evInstalled /\ ~wake
    /\ wake' = TRUE
    /\ wakeAt' = cpc
    /\ UNCHANGED <<cpc, client, bluez, periph, lastOp, lastSize, lastData, ret,
                   streams, tmo, evInstalled, wire, scan, ident, server>>

\* BaseBle.run
run ==
    /\ cpc = "idle"
    /\ is_open' = TRUE
    /\ Returns("run", NoneRet, 0, <<>>)
    /\ calls' = <<>> /\ wrecv' = <<>>
    /\ UNCHANGED <<cpc, device_path, device, received, handlers, quit, bluez,
                   periph, streams, waking, scan, ident, server>>

\* BaseBle.close
close ==
    /\ cpc = "idle"
    /\ is_open' = FALSE
    /\ Returns("close", NoneRet, 0, <<>>)
    /\ calls' = <<>> /\ wrecv' = <<>>
    /\ UNCHANGED <<cpc, device_path, device, received, handlers, quit, bluez,
                   periph, streams, waking, scan, ident, server>>

\* BleGatt.read_packet, lines 132-154: a new main loop, self.received = None,
\* the lookup of the notify characteristic (next() raises StopIteration when
\* nothing matches), add_signal_receiver.
read_packet_setup ==
    /\ cpc = "idle"
    /\ Resolved => handlers < MaxHandlers
    /\ received' = NoneVal
    /\ quit' = FALSE
    /\ IF gatt /\ device_path = "unset"
       THEN /\ Returns("read_packet", Raise("AttributeError"), 0, lastData)
            /\ UNCHANGED <<cpc, handlers, rpIn>>
       ELSE IF ~Resolved
       THEN /\ Returns("read_packet", Raise("StopIteration"), 0, lastData)
            /\ UNCHANGED <<cpc, handlers, rpIn>>
       ELSE /\ handlers' = handlers + 1
            /\ rpIn' = <<>>
            /\ cpc' = "rp_notify"
            /\ UNCHANGED <<lastOp, lastSize, lastData, ret>>
    /\ calls' = <<>> /\ wrecv' = <<>>
    /\ UNCHANGED <<is_open, device_path, device, bluez, periph, inbound, returned,
                   waking, scan, ident, server>>

\* BleGatt.read_packet, line 156: char.StartNotify(), then loop.run() begins.
read_packet_StartNotify ==
    /\ cpc = "rp_notify"
    /\ IF linked
       THEN /\ StartNotify
            /\ cpc' = "rp_wait"
            /\ UNCHANGED <<lastOp, lastSize, lastData, ret>>
       ELSE /\ Returns("read_packet", Raise("DBusException"), 0, lastData)
            /\ cpc' = "idle"
            /\ UNCHANGED notifying
    /\ calls' = Append(calls, Call("StartNotify", <<>>))
    /\ UNCHANGED <<client, bluez, value, emit, streams, waking, wrecv, scan, ident,
                   server>>

\* BleGatt.handler, called by the running main loop for one queued signal.
\* Every queued signal has "Value" in changed.  The loop dispatches all the
\* signals that are queued in one iteration, loop.quit() ends it after it.
handler ==
    /\ cpc = "rp_wait"
    /\ sigq # <<>>
    /\ received' = [set |-> TRUE, val |-> Head(sigq)]
    /\ quit' = TRUE
    /\ sigq' = Tail(sigq)
    /\ inbound' = inbound \o Head(sigq)
    /\ rpIn' = rpIn \o Head(sigq)
    /\ UNCHANGED <<cpc, is_open, device_path, device, handlers, linked, gatt, nsent,
                   periph, lastOp, lastSize, lastData, ret, returned, waking, wire,
                   scan, ident, server>>

\* read_packet whose last lines are only `return self.received`: the wait is
\* over and the value is returned with notifications left enabled.
read_packet_return_mut ==
    /\ cpc = "rp_wait"
    /\ quit
    /\ cpc' = "idle"
    /\ Returns("read_packet", BytesRet(received.val), 0, lastData)
    /\ returned' = returned \o received.val
    /\ UNCHANGED <<client, bluez, periph, inbound, rpIn, waking, wire, scan, ident,
                   server>>

\* BleGatt.read_packet, lines 157-159: loop.run() returns after loop.quit(),
\* char.StopNotify(), return self.received.
read_packet_return ==
    /\ cpc = "rp_wait"
    /\ quit
    /\ cpc' = "idle"
    /\ IF linked
       THEN /\ StopNotify
            /\ Returns("read_packet", BytesRet(received.val), 0, lastData)
            /\ returned' = returned \o received.val
       ELSE /\ Returns("read_packet", Raise("DBusException"), 0, lastData)
            /\ UNCHANGED <<notifying, returned>>
    /\ calls' = Append(calls, Call("StopNotify", <<>>))
    /\ UNCHANGED <<client, bluez, value, emit, inbound, rpIn, waking, wrecv, scan,
                   ident, server>>

----------------------------------------------------------------------------
\* BleGatt.is_bluetooth_on
is_bluetooth_on ==
    /\ cpc = "idle"
    /\ Returns("is_bluetooth_on", BoolRet(powered), 0, <<>>)
    /\ calls' = <<>> /\ wrecv' = <<>>
    /\ UNCHANGED <<cpc, client, bluez, periph, streams, waking, scan, ident, server>>

\* BleGatt.set_bluetooth_power.  Line 165 calls Set on self.adapter, the proxy
\* for the interface org.bluez.Adapter1, and not on self.adapter_prob, the
\* proxy for org.freedesktop.DBus.Properties: Adapter1 has no method Set, the
\* call is answered with the error UnknownMethod, which dbus raises as
\* DBusException.  The adapter's power is not touched and lines 167-171, which
\* return True whatever Powered is, are not reached.
set_bluetooth_power(state) ==
    /\ cpc = "idle"
    /\ calls' = << Call("Set", <<>>) >>
    /\ wrecv' = <<>>
    /\ Returns("set_bluetooth_power", Raise("DBusException"), 0, <<>>)
    /\ UNCHANGED <<cpc, client, bluez, periph, streams, waking, scan, ident, server>>

\* BleGatt.discover with lines 73-74 left out: the scan is started whatever
\* the adapter's power state is.
discover_start_mut ==
    /\ cpc = "idle"
    /\ devicelist' = <<>>
    /\ calls' = << Call("StartDiscovery", <<>>) >>
    /\ cpc' = "scan"
    /\ wrecv' = <<>>
    /\ UNCHANGED <<client, bluez, periph, lastOp, lastSize, lastData, ret, streams,
                   waking, powered, devname, ident, server>>

\* BleGatt.discover, lines 73-77: the power check, devicelist = [],
\* adapter.StartDiscovery().
discover_start ==
    /\ cpc = "idle"
    /\ IF ~powered
       THEN /\ Returns("discover", Raise("BluetoothError"), 0, <<>>)
            /\ calls' = <<>>
            /\ UNCHANGED <<cpc, devicelist>>
       ELSE /\ devicelist' = <<>>
            /\ calls' = << Call("StartDiscovery", <<>>) >>
            /\ cpc' = "scan"
            /\ UNCHANGED <<lastOp, lastSize, lastData, ret>>
    /\ wrecv' = <<>>
    /\ UNCHANGED <<client, bluez, periph, streams, waking, powered, devname, ident, server>>

\* One pass of discover's loop that also keeps the path of the device it
\* found, as connect does.
discover_poll_mut ==
    /\ cpc = "scan"
    /\ LET data == [addr |-> "A", name |-> devname]
       IN  devicelist' = IF \E i \in 1..Len(devicelist) : devicelist[i] = data
                         THEN devicelist
                         ELSE Append(devicelist, data)
    /\ device_path' = "A"
    /\ UNCHANGED <<cpc, is_open, device, received, handlers, quit, bluez, periph,
                   lastOp, lastSize, lastData, ret, streams, waking, wire, powered,
                   devname, ident, server>>

\* BleGatt.discover, lines 78-87: one pass of the while loop.  The object tree
\* holds the Device1 object of address A under its current name; data is
\* appended unless an equal dict (same addr and same name) is in the list.
discover_poll ==
    /\ cpc = "scan"
    /\ LET data == [addr |-> "A", name |-> devname]
       IN  devicelist' = IF \E i \in 1..Len(devicelist) : devicelist[i] = data
                         THEN devicelist
                         ELSE Append(devicelist, data)
    /\ UNCHANGED <<cpc, client, bluez, periph, lastOp, lastSize, lastData, ret,
                   streams, waking, wire, powered, devname, ident, server>>

\* BleGatt.discover, lines 88-90: the loop's time is over,
\* adapter.StopDiscovery() (refused by an adapter that lost power meanwhile),
\* return devicelist.
discover_finish ==
    /\ cpc = "scan"
    /\ cpc' = "idle"
    /\ calls' = Append(calls, Call("StopDiscovery", <<>>))
    /\ Returns("discover", IF powered THEN ListRet ELSE Raise("DBusException"),
               0, <<>>)
    /\ UNCHANGED <<client, bluez, periph, streams, waking, wrecv, scan, ident, server>>

\* The device at address A changes the name it advertises.
Rename ==
    /\ \E n \in Names \ {devname} : devname' = n
    /\ UNCHANGED <<cpc, client, bluez, periph, lastOp, lastSize, lastData, ret,
                   streams, waking, wire, powered, devicelist, ident, server>>

\* The adapter is switched off from outside the program; its links go down.
PowerOff ==
    /\ powered
    /\ powered' = FALSE
    /\ linked' = FALSE
    /\ UNCHANGED <<cpc, client, gatt, sigq, nsent, periph, lastOp, lastSize,
                   lastData, ret, streams, waking, wire, devname, devicelist, ident, server>>

\* The adapter is switched on from outside the program.
PowerOn ==
    /\ ~powered
    /\ powered' = TRUE
    /\ UNCHANGED <<cpc, client, bluez, periph, lastOp, lastSize, lastData, ret,
                   streams, waking, wire, devname, devicelist, ident, server>>

----------------------------------------------------------------------------

\* DeviceUuids.__init__ (src/base_ble.py): the three assignments in order; the
\* first UUID(...) that raises ends the construction with ValueError.
DeviceUuids ==
    /\ uuids.state = "unset"
    /\ LET service == UUID(str(uargs[1]))
           write_  == UUID(str(uargs[2]))
           notify  == UUID(str(uargs[3]))
       IN  uuids' = IF service.ok /\ write_.ok /\ notify.ok
                    THEN [state |-> "ok", service |-> service.hex,
                          write |-> write_.hex, notify |-> notify.hex]
                    ELSE [state |-> "ValueError", service |-> <<>>,
                          write |-> <<>>, notify |-> <<>>]
    /\ UNCHANGED <<cpc, client, bluez, periph, lastOp, lastSize, lastData, ret,
                   streams, waking, wire, scan, uargs, server>>

----------------------------------------------------------------------------

\* The steps the client's own thread takes once read_packet was called.
ClientStep == read_packet_StartNotify \/ handler \/ read_packet_return

\* The link, the peripheral and the operations of the transport that act on
\* them.
Transport ==
    \/ \E dev \in Targets : connect(dev)
    \/ Disconnect
    \/ \E data \in Data : write(data)
    \/ read_packet_setup
    \/ read_packet_StartNotify
    \/ handler
    \/ read_packet_return
    \/ \E data \in Data : PeerWriteValue(data)
    \/ ServicesResolved
    \/ ServicesRemoved
    \/ LinkLost

\* A caller that uses the byte-stream operations and run / close.
Next ==
    \/ Transport
    \/ \E size \in Sizes : read(size)
    \/ receive
    \/ \E size \in Sizes : recvall(size)
    \/ run
    \/ close

Spec == Init /\ [][Next]_vars

\* A called read_packet goes on running: the thread is not stopped.  Nothing
\* is assumed of the caller, the peer or the link.
FairSpec == Spec /\ WF_vars(ClientStep)

\* A caller that uses the wake event and the timeout; another execution
\* context signals the event.
WakeNext ==
    \/ Transport
    \/ \E size \in Sizes : read(size)
    \/ get_event
    \/ set_event
    \/ \E timeout \in {"None", "finite"} : set_timeout(timeout)
    \/ SignalWake

WakeSpec == Init /\ [][WakeNext]_vars /\ WF_vars(ClientStep)

----------------------------------------------------------------------------
\* Claims.

\* A caller that scans for devices and connects, next to an adapter whose
\* power and a device whose name change.
ScanNext ==
    \/ discover_start
    \/ discover_poll
    \/ discover_finish
    \/ is_bluetooth_on
    \/ \E state \in BOOLEAN : set_bluetooth_power(state)
    \/ \E dev \in Targets : connect(dev)
    \/ Disconnect
    \/ \E data \in Data : write(data)
    \/ Rename
    \/ PowerOff
    \/ PowerOn
    \/ ServicesResolved
    \/ ServicesRemoved
    \/ LinkLost

ScanSpec == Init /\ [][ScanNext]_vars

\* A caller about to construct DeviceUuids(service, write, notify).
UuidInit ==
    /\ InitTransport
    /\ uargs \in Args \X Args \X Args
    /\ uuids = NoUuids

UuidNext == DeviceUuids

UuidSpec == UuidInit /\ [][UuidNext]_vars

----------------------------------------------------------------------------

\* The echo peripheral on its own: a central writes, starts and stops
\* notifications and writes descriptors.
PeriphNext ==
    \/ \E data \in Data : CentralWriteValue(data)
    \/ CentralStartNotify
    \/ CentralStopNotify
    \/ \E desc \in Descs : \E v \in CccdWrites : DescWriteValue(desc, v)

PeriphSpec == Init /\ [][PeriphNext]_vars

----------------------------------------------------------------------------

\* A caller that connects and reads packets while the peripheral is written
\* to and the link may drop.
NotifyNext ==
    \/ \E dev \in Known : connect(dev)
    \/ ServicesResolved
    \/ LinkLost
    \/ read_packet_setup
    \/ read_packet_StartNotify
    \/ handler
    \/ read_packet_return
    \/ \E data \in Data : PeerWriteValue(data)

NotifySpec == Init /\ [][NotifyNext]_vars

----------------------------------------------------------------------------

\* C1: when the frame [4-byte length L = Len(P)][P] is what the peer
\* delivered on the notify endpoint during a read_packet call, the call
\* returns exactly P: the header is stripped, L bytes are returned.
C1_ReadPacketReturnsPayload ==
    \A P \in Payloads :
        (cpc = "idle" /\ lastOp = "read_packet" /\ ret.kind = "bytes" /\ rpIn = Frame(P))
            => ret.bytes = P

\* C2: against the echo peripheral, a read_packet() called right after a
\* write(d) that succeeded eventually returns the bytes of d (unless the
\* link is lost meanwhile).
C2_WriteThenReadPacketReturnsEcho ==
    (cpc = "rp_notify" /\ lastOp = "write" /\ ret.kind = "True")
        ~> \/ cpc = "idle" /\ lastOp = "read_packet" /\ ret = BytesRet(lastData)
           \/ ~linked

\* C3: inbound bytes are never lost or reordered: what the read operations
\* returned, in call order, is a prefix of what the notifications delivered,
\* and once receive() has returned nothing delivered is left unreturned.
C3_InboundNeverLost ==
    /\ IsPrefix(returned, inbound)
    /\ (cpc = "idle" /\ lastOp = "receive") => returned = inbound

\* C4: read(n) called while at least n bytes are buffered returns the whole
\* buffer contents and leaves the buffer empty.
C4_ReadReturnsWholeBuffer ==
    [][\A n \in Sizes :
          (read(n) /\ Len(Buffered) >= n)
              => (ret'.kind = "bytes" /\ ret'.bytes = Buffered /\ Buffered' = <<>>)]_vars

\* C5: read(n) called while fewer than n bytes are buffered, with no wake
\* signal and no timeout, does not return before n bytes are there: when it
\* returns, it returns at least n bytes.
C5_ReadWaitsForSize ==
    [][\A n \in Sizes :
          (read(n) /\ Len(Buffered) < n /\ ~wake /\ tmo = "None")
              => (ret'.kind = "bytes" /\ Len(ret'.bytes) >= n)]_vars

\* C6: when the installed wake event is signaled while a read operation is
\* blocked, that operation eventually returns (here: at least while the link
\* stays up).
C6_WakeUnblocksRead ==
    (cpc = "rp_wait" /\ wake /\ wakeAt = "rp_wait") ~> (cpc = "idle" \/ ~linked)

\* C7: a wake signal delivered after a blocking read was invoked and before
\* it begins to sleep is not lost: the read still returns (here: at least
\* while the link stays up).
C7_EarlyWakeNotLost ==
    (cpc = "rp_notify" /\ wake /\ wakeAt = "rp_notify") ~> (cpc = "idle" \/ ~linked)

\* C8: recvall(size), with no wake signal and no timeout, returns exactly
\* size bytes: with at least size bytes buffered it returns the first size of
\* them and the rest stays available to the next read operation.
C8_RecvallReturnsExactSize ==
    [][\A n \in Sizes :
          (recvall(n) /\ Len(Buffered) >= n /\ ~wake /\ tmo = "None")
              => /\ ret'.kind = "bytes"
                 /\ ret'.bytes = SubSeq(Buffered, 1, n)
                 /\ Buffered' = SubSeq(Buffered, n + 1, Len(Buffered))]_vars

\* C9: after set_timeout(t) with a finite t, a blocking read operation that
\* waits for inbound data terminates (here: at least while the link stays
\* up).
C9_TimeoutEndsRead ==
    (cpc = "rp_wait" /\ tmo = "finite") ~> (cpc = "idle" \/ ~linked)

\* C10: write(data) returns true when the data was submitted and false, as a
\* value and not as a raised error, when the write endpoint is not resolved
\* or the link is down.
C10_WriteReturnsBool ==
    lastOp = "write" => ret.kind \in {"True", "False"}

C12_ClosedRejectsReadAndWrite ==
    [][(lastOp = "close" /\ ~is_open)
          => /\ \A d \in Data : write(d) => ret'.kind = "raise"
             /\ \A n \in Sizes : read(n) => ret'.kind = "raise"]_vars

\* C13: connect(target) returns true exactly when the link reaches the
\* connected state, and false when it could not be established.
C13_ConnectReturnsBool ==
    [][\A dev \in Targets :
          connect(dev) => /\ ret'.kind \in {"True", "False"}
                          /\ ret'.kind = "True" <=> linked']_vars

\* The D-Bus methods the current operation has called, in order.
Called == { calls[i].m : i \in 1..Len(calls) }

\* C14: connect(address) for an address that is not among the known devices
\* fails with the device-not-found error and issues no link-level Connect
\* request; the link is left as it was.
C14_UnknownAddressNotConnected ==
    [][\A dev \in Targets :
          (connect(dev) /\ dev # "none" /\ dev \notin Known)
              => /\ ret' = Raise("Exception")
                 /\ "Connect" \notin Called'
                 /\ linked' = linked]_vars

\* connect("B") was refused while the link to A, made earlier, is still up.
C14_Witness ==
    /\ lastOp = "connect" /\ ret = Raise("Exception")
    /\ device_path = "None" /\ calls = <<>> /\ linked

\* C15: connect while already connected first forces the link down before
\* the new attempt: a Connect request issued while the link is up is
\* preceded, in the same operation, by a Disconnect request.
C15_ReconnectDisconnectsFirst ==
    [][\A dev \in Targets :
          (connect(dev) /\ linked /\ "Connect" \in Called')
              => calls'[1].m = "Disconnect"]_vars

\* C16: disconnect() always succeeds locally: it may be called in any state,
\* also when never connected, without raising.
C16_DisconnectNeverRaises ==
    lastOp = "Disconnect" => ret.kind # "raise"

\* C17: discover deduplicates by address: the returned list holds at most
\* one entry per address, also when the device was seen under different
\* names in different polls.
C17_DiscoverOneEntryPerAddress ==
    (lastOp = "discover" /\ ret.kind = "list")
        => \A i, j \in 1..Len(devicelist) :
              devicelist[i].addr = devicelist[j].addr => i = j

\* C18: discover while the radio is powered off fails with the radio-off
\* error before any scan begins: no StartDiscovery is issued, no list is
\* returned and the scan loop is not entered.
C18_DiscoverRadioOffFails ==
    [][(discover_start /\ ~powered)
          => /\ ret' = Raise("BluetoothError")
             /\ "StartDiscovery" \notin Called'
             /\ cpc' = "idle"]_vars

\* discover was refused on an adapter that is off.
C18_Witness ==
    /\ lastOp = "discover" /\ ret = Raise("BluetoothError")
    /\ ~powered /\ calls = <<>> /\ cpc = "idle"

\* C19: discover never produces the connected state and leaves the resolved
\* device and its path unchanged.
C19_DiscoverKeepsLinkAndDevice ==
    [][(discover_start \/ discover_poll \/ discover_finish)
          => /\ linked' => linked
             /\ UNCHANGED <<device, device_path>>]_vars

\* discover returned a list with the device in it while the link made before
\* the scan is still up and device_path still names the connected device.
C19_Witness ==
    /\ lastOp = "discover" /\ ret.kind = "list" /\ devicelist # <<>>
    /\ linked /\ device = "A" /\ device_path = "A"

\* C20: DeviceUuids can be constructed from a valid service UUID alone, the
\* write and notify UUIDs being optional: construction fails only when a
\* UUID text that was supplied is badly formed.
C20_UuidsFailOnlyOnBadText ==
    uuids.state = "ValueError"
        => \E i \in 1..3 : ~uargs[i].none /\ ~UUID(uargs[i].text).ok

\* C21: write(data) hands the whole of data to the write endpoint in a
\* single operation: a successful write(data) has made exactly one WriteValue
\* call on the write characteristic, carrying all bytes of data in order, and
\* that is what the peripheral received.
C21_WriteIsOneWriteValue ==
    [][\A d \in Data :
          (write(d) /\ ret'.kind = "True")
              => /\ calls' = << Call("WriteValue", d) >>
                 /\ wrecv' = << d >>]_vars

\* A write of a frame with a payload has succeeded.
C21_Witness ==
    /\ lastOp = "write" /\ ret.kind = "True"
    /\ Len(lastData) > 4 /\ wrecv = << lastData >>

\* C22: set_bluetooth_power(state) returns true exactly when the adapter's
\* power state has become the requested one, and false when it could not be
\* changed.
C22_SetPowerReturnsOutcome ==
    [][\A state \in BOOLEAN :
          set_bluetooth_power(state)
              => /\ ret'.kind \in {"True", "False"}
                 /\ ret'.kind = "True" <=> powered' = state]_vars

\* C23: echo peripheral: every WriteValue(data) on the write characteristic
\* at once causes one notification carrying exactly data if notifications
\* are enabled at that moment, and no notification and no change of the
\* notify characteristic's stored value if they are disabled; the
\* notifications are emitted in the order of the writes.
C23_EchoWhenNotifying ==
    /\ [](elog = Echoed(wlog))
    /\ [][\A d \in Data :
             CentralWriteValue(d)
                 => IF notifying
                    THEN emit' = << d >> /\ value' = d
                    ELSE emit' = <<>> /\ value' = value]_vars

\* Three writes were made, the second with notifications disabled and a
\* value stored: the first and the third were echoed, in this order.
C23_Witness ==
    /\ Len(wlog) = 3 /\ wlog[1].en /\ ~wlog[2].en /\ wlog[3].en
    /\ wlog[1].data # wlog[3].data
    /\ elog = << wlog[1].data, wlog[3].data >>
    /\ value = wlog[3].data

\* C24: after a write of v (of any length, also empty) to the CCCD
\* descriptor its stored value is exactly two bytes, the first two of v,
\* zero-padded on the right, and the characteristic's notifying flag equals
\* bit 0 of the first stored byte; a write to a descriptor whose UUID is not
\* the CCCD UUID changes neither the stored value nor the notifying flag.
C24_CccdWriteStoresTwoBytes ==
    [][\A desc \in Descs : \A v \in CccdWrites :
          DescWriteValue(desc, v)
              => IF uuid(desc) = CCCD_UUID
                 THEN /\ Len(ReadValue(desc)') = 2
                      /\ \A i \in 1..2 :
                            ReadValue(desc)'[i] = IF i <= Len(v) THEN v[i] ELSE 0
                      /\ notifying' <=> (ReadValue(desc)'[1] % 2 = 1)
                 ELSE /\ ReadValue(desc)' = ReadValue(desc)
                      /\ notifying' = notifying]_vars

\* The CCCD was written and holds 01 00 with notifying set; the other
\* descriptor holds its initial value.
C24_Witness ==
    /\ cccd_value = <<1, 0>> /\ notifying
    /\ user_value = <<0, 0>>

\* C25: in every reachable state of the peripheral, after any sequence of
\* StartNotify, StopNotify and CCCD writes, the notify characteristic's
\* notifying flag equals bit 0 of the CCCD value that ReadValue on the CCCD
\* descriptor returns.
C25_NotifyingIsCccdBit0 ==
    notifying <=> (ReadValue("desc0")[1] % 2 = 1)

\* C26: in every reachable state of the client the resolved device path and
\* the device handle refer to the same device, also after a connect(address)
\* that failed with device-not-found following an earlier successful
\* connect (here: while the link that connect made is up).
C26_PathAndHandleAgree ==
    (device # "unset" /\ linked) => device_path = device

\* How often method m is in the log of the current operation's calls.
Count(m) == Cardinality({ i \in 1..Len(calls) : calls[i].m = m })

\* C27, as stated: every read_packet call enables notifications before it
\* waits and disables them after the wait, it never returns before a Value
\* notification was received, and whenever no read_packet is in progress the
\* number of StartNotify calls equals the number of StopNotify calls.
C27_NotifyCallsBalanced ==
    /\ cpc = "rp_wait" => calls = << Call("StartNotify", <<>>) >>
    /\ (cpc = "idle" /\ lastOp = "read_packet" /\ ret.kind # "raise")
           => ret.kind = "bytes" /\ received.set
    /\ cpc = "idle" => Count("StartNotify") = Count("StopNotify")

\* C27, amended: StartNotify precedes the wait; a read_packet call that
\* returns a result returns the value of a notification received during the
\* call and has made exactly one StartNotify call before the wait and one
\* StopNotify call after it; a call that ends with an error has made no
\* StopNotify call without a StartNotify call before it.
C27_ReadPacketPairsNotify ==
    /\ cpc = "rp_wait" => calls = << Call("StartNotify", <<>>) >>
    /\ (cpc = "idle" /\ lastOp = "read_packet")
           => IF ret.kind = "raise"
              THEN calls \in { <<>>,
                               << Call("StartNotify", <<>>) >>,
                               << Call("StartNotify", <<>>), Call("StopNotify", <<>>) >> }
              ELSE /\ ret.kind = "bytes" /\ received.set
                   /\ ret.bytes = received.val
                   /\ rpIn # <<>>
                   /\ calls = << Call("StartNotify", <<>>), Call("StopNotify", <<>>) >>

\* A read_packet call has returned a notification's value after one
\* StartNotify and one StopNotify, and the peripheral no longer notifies.
C27_Witness ==
    /\ cpc = "idle" /\ lastOp = "read_packet" /\ ret.kind = "bytes"
    /\ Len(ret.bytes) > 0 /\ Count("StartNotify") = 1 /\ Count("StopNotify") = 1
    /\ ~notifying

====
